---------------------------- MODULE Spec2Model ----------------------------
(***************************************************************************)
(* A model of the refine-firebase data provider (FirebaseDataProvider):    *)
(* the client-side query engine of getList (applyFilter, the OR union, the *)
(* comparator sort, the pagination slice), the read operations getOne and  *)
(* getMany, and the create path (biggestIdPlusOneStrategy, createData,     *)
(* createManyData) over a store that several calls share.                  *)
(*                                                                         *)
(* JavaScript values are tagged records: U is undefined, Num(n) a number,  *)
(* Obj(f) an object whose own properties are DOMAIN f, Arr(s) an array.    *)
(* A thrown TypeError is the value TypeError; a record of the store is     *)
(* referred to by its key, which stands for the object's reference.        *)
(***************************************************************************)
EXTENDS Integers, Sequences, FiniteSets, TLC

VARIABLES
  db,        \* the resource node in the store: NotExists, or Node(key -> record)
  engine,    \* the Array.prototype.sort implementation of the JavaScript engine
  pc,        \* the position of the read call in flight: idle, awaitGet, done
  op,        \* the read operation called: getList, getOne, getMany
  args,      \* the arguments of the call
  got,       \* how get() settled for the call: pending, resolved, rejected
  result,    \* how the promise the call returned settled, and with what
  unhandled, \* rejected promises created and dropped (Promise.reject(...) unreturned)
  cop,       \* per caller: the write operation called (none, create, createMany)
  cpc,       \* per caller: idle, awaitId (in getCreateId), awaitSet (in set), done
  items,     \* per caller: the number of records in `variables`
  cidx,      \* per caller: the item of the createManyData loop being created
  newId,     \* per caller: the id getCreateId returned for the item
  cresult,   \* per caller: what the promise of the call was fulfilled with
  alloc,     \* history, per caller: for each item, the id allocated, the largest
             \* key present then and the items written before (id 0: rejected)
  written,   \* history: the items <<caller, item>> whose set() has completed
  initIds,   \* history: the keys present before any call
  uop,       \* the update operation called: none, update, updateMany
  uargs,     \* the arguments of the update call: ids and variables
  uwrite,    \* per id: how update(databaseRef, variables) stands: pending,
             \* applied, failed
  uprom,     \* per id: the promise updateData returned: pending, or settled
  uresult,   \* how the promise of the update call settled, and with what
  utaken,    \* history: what the caller found when the result reached it
  subs,      \* the listeners onValue registered, one per subscribe call
  thrown,    \* the TypeErrors the live provider's methods threw to their callers
  mutations  \* the mutations of the store made under the subscribed resources

-----------------------------------------------------------------------------
(* Bounds of the model *)

MaxRecs == 3
MaxPage == 3
MaxPageSize == 2
NumCallers == 2
MaxItems == 2
MaxTotalItems == 3
MaxInitId == 3

-----------------------------------------------------------------------------
(* JavaScript values *)

U == [t |-> "undefined"]
TypeError == [t |-> "TypeError"]
Num(n) == [t |-> "number", n |-> n]
Obj(f) == [t |-> "object", f |-> f]
Arr(s) == [t |-> "array", a |-> s]

\* a node of the store as a snapshot shows it: exists() and val(), the children
\* by key
NotExists == [exists |-> FALSE, val |-> <<>>]
Node(children) == [exists |-> TRUE, val |-> children]

IsNum(v) == v.t = "number"

\* value == filter.value (loose equality)
LooseEq(a, b) ==
  CASE a.t = "undefined" /\ b.t = "undefined" -> TRUE
    [] a.t = "number" /\ b.t = "number" -> a.n = b.n
    [] OTHER -> FALSE

\* a < b: both operands are converted to numbers; undefined and an object
\* convert to NaN, and every comparison with NaN is false
Less(a, b) == IsNum(a) /\ IsNum(b) /\ a.n < b.n

LessEq(a, b) == IsNum(a) /\ IsNum(b) /\ a.n <= b.n

\* !value
Falsy(v) == v.t = "undefined" \/ (v.t = "number" /\ v.n = 0)

\* filter.value.includes(value), filter.value an array of numbers
Includes(arr, v) == \E i \in 1..Len(arr.a) : arr.a[i] = v

\* value[f]: reading a property of undefined throws a TypeError, a number has
\* no own property, an object yields the property or undefined
Prop(v, f) ==
  CASE v.t = "TypeError" -> TypeError
    [] v.t = "undefined" -> TypeError
    [] v.t = "object" -> IF f \in DOMAIN v.f THEN v.f[f] ELSE U
    [] OTHER -> U

\* filter.field.split(".")
Split(field) ==
  CASE field = "meta.flag" -> <<"meta", "flag">>
    [] OTHER -> <<field>>

RECURSIVE Walk(_, _)
\* let value = obj; for (let f of path) value = value[f]
Walk(value, path) ==
  IF path = <<>> THEN value ELSE Walk(Prop(value, Head(path)), Tail(path))

-----------------------------------------------------------------------------
(* applyFilter *)

KnownOps == {"eq", "ne", "lt", "gt", "lte", "gte", "null", "nnull", "in", "nin"}

\* the switch on filter.operator: the predicate on the resolved value
FilterFn(filter, value) ==
  CASE filter.operator = "eq" -> LooseEq(value, filter.value)
    [] filter.operator = "ne" -> ~LooseEq(value, filter.value)
    [] filter.operator = "lt" -> Less(value, filter.value)
    [] filter.operator = "gt" -> Less(filter.value, value)
    [] filter.operator = "lte" -> LessEq(value, filter.value)
    [] filter.operator = "gte" -> LessEq(filter.value, value)
    [] filter.operator = "null" -> Falsy(value)
    [] filter.operator = "nnull" -> ~Falsy(value)
    [] filter.operator = "in" -> Includes(filter.value, value)
    [] filter.operator = "nin" -> ~Includes(filter.value, value)
    [] OTHER -> TRUE

\* the value the callback of data.filter resolves for one record
ResolvedValue(recs, k, filter) == Walk(recs[k], Split(filter.field))

RECURSIVE SelectKeys(_, _, _)
SelectKeys(recs, keys, filter) ==
  IF keys = <<>> THEN <<>>
  ELSE IF FilterFn(filter, ResolvedValue(recs, Head(keys), filter))
       THEN <<Head(keys)>> \o SelectKeys(recs, Tail(keys), filter)
       ELSE SelectKeys(recs, Tail(keys), filter)

\* applyFilter(data, filter): undefined for an "or" clause or undefined data,
\* a TypeError when resolving the path throws for some record, else the
\* records the predicate keeps, in order
ApplyFilter(recs, data, filter) ==
  IF filter.operator = "or" \/ data.t = "undefined" THEN U
  ELSE IF \E i \in 1..Len(data.a) :
            ResolvedValue(recs, data.a[i], filter).t = "TypeError"
       THEN TypeError
       ELSE Arr(SelectKeys(recs, data.a, filter))

-----------------------------------------------------------------------------
(* getList: the filters loop *)

RECURSIVE Flat(_, _)
\* childOut.flat().filter((item) => !!item): the children's arrays end to end,
\* an undefined child result dropped
Flat(childOut, i) ==
  IF i > Len(childOut) THEN <<>>
  ELSE (IF childOut[i].t = "array" THEN childOut[i].a ELSE <<>>)
       \o Flat(childOut, i + 1)

RECURSIVE SetOrder(_, _)
\* new Set([...newOut]) read back with forEach: each reference once, in the
\* order of its first occurrence
SetOrder(s, seen) ==
  IF s = <<>> THEN <<>>
  ELSE IF Head(s) \in seen THEN SetOrder(Tail(s), seen)
       ELSE <<Head(s)>> \o SetOrder(Tail(s), seen \cup {Head(s)})

\* the body of filters.forEach for one top-level clause
FilterStep(recs, outData, filter) ==
  IF filter.operator = "or"
  THEN LET childOut == [i \in 1..Len(filter.value) |->
                          ApplyFilter(recs, outData, filter.value[i])]
       IN IF \E i \in 1..Len(childOut) : childOut[i].t = "TypeError"
          THEN TypeError
          ELSE Arr(SetOrder(Flat(childOut, 1), {}))
  ELSE ApplyFilter(recs, outData, filter)

RECURSIVE ApplyFilters(_, _, _, _)
\* outData after the first n top-level clauses; a throw ends the loop
ApplyFilters(recs, data, filters, n) ==
  IF n = 0 THEN data
  ELSE LET before == ApplyFilters(recs, data, filters, n - 1)
       IN IF before.t = "TypeError" THEN TypeError
          ELSE FilterStep(recs, before, filters[n])

-----------------------------------------------------------------------------
(* getList: data.sort with the comparator of the first sort key *)

\* a[sort[0].field]: the sort key is read as one property name, not as a path
SortValue(recs, k, field) == Prop(recs[k], field)

\* (a, b) => a[field] < b[field] ? -1 : 1
CompareFn(recs, field, a, b) ==
  IF Less(SortValue(recs, a, field), SortValue(recs, b, field)) THEN -1 ELSE 1

Reverse(s) == [i \in 1..Len(s) |-> s[Len(s) + 1 - i]]

RECURSIVE RunLength(_, _, _, _, _)
\* the length of the initial run (non-descending, or strictly descending)
RunLength(recs, field, s, idx, desc) ==
  IF idx > Len(s) THEN idx - 1
  ELSE LET order == CompareFn(recs, field, s[idx], s[idx - 1])
       IN IF (desc /\ order >= 0) \/ (~desc /\ order < 0) THEN idx - 1
          ELSE RunLength(recs, field, s, idx + 1, desc)

RECURSIVE BinarySearch(_, _, _, _, _, _)
BinarySearch(recs, field, s, pivot, left, right) ==
  IF left >= right THEN left
  ELSE LET mid == left + ((right - left) \div 2)
       IN IF CompareFn(recs, field, pivot, s[mid]) < 0
          THEN BinarySearch(recs, field, s, pivot, left, mid)
          ELSE BinarySearch(recs, field, s, pivot, mid + 1, right)

RECURSIVE BinaryInsertion(_, _, _, _)
BinaryInsertion(recs, field, s, start) ==
  IF start > Len(s) THEN s
  ELSE LET left == BinarySearch(recs, field, s, s[start], 1, start)
           moved == SubSeq(s, 1, left - 1) \o <<s[start]>>
                    \o SubSeq(s, left, start - 1) \o SubSeq(s, start + 1, Len(s))
       IN BinaryInsertion(recs, field, moved, start + 1)

\* a binary insertion sort after the initial run (the short-array case of a
\* TimSort): an element is placed before the first it compares less than
SortBinary(recs, field, s) ==
  IF Len(s) < 2 THEN s
  ELSE LET desc == CompareFn(recs, field, s[2], s[1]) < 0
           run == RunLength(recs, field, s, 3, desc)
           made == IF desc THEN Reverse(SubSeq(s, 1, run)) \o SubSeq(s, run + 1, Len(s))
                   ELSE s
       IN BinaryInsertion(recs, field, made, run + 1)

RECURSIVE ShiftPos(_, _, _, _, _)
\* for (j = i - 1; j >= 1; j--) if (comparefn(s[j], item) <= 0) break
ShiftPos(recs, field, s, item, j) ==
  IF j < 1 THEN 0
  ELSE IF CompareFn(recs, field, s[j], item) <= 0 THEN j
       ELSE ShiftPos(recs, field, s, item, j - 1)

RECURSIVE LinearInsertion(_, _, _, _)
LinearInsertion(recs, field, s, i) ==
  IF i > Len(s) THEN s
  ELSE LET j == ShiftPos(recs, field, s, s[i], i - 1)
           moved == SubSeq(s, 1, j) \o <<s[i]>>
                    \o SubSeq(s, j + 1, i - 1) \o SubSeq(s, i + 1, Len(s))
       IN LinearInsertion(recs, field, moved, i + 1)

\* a linear insertion sort: an element moves left past every element that
\* compares greater than it
SortLinear(recs, field, s) == LinearInsertion(recs, field, s, 2)

Engines == {"binaryInsertion", "linearInsertion"}

\* data.sort(comparefn): the comparator never returns 0, so it is not a
\* consistent comparator and the order is the engine's; the two insertion
\* sorts are the ones engines run on short arrays
ArraySort(eng, recs, field, s) ==
  IF eng = "binaryInsertion" THEN SortBinary(recs, field, s)
  ELSE SortLinear(recs, field, s)

\* if (sort && sort.length > 0) { data.sort(...); if desc data.reverse() }
SortData(eng, recs, sort, s) ==
  IF Len(sort) > 0
  THEN LET sorted == ArraySort(eng, recs, sort[1].field, s)
       IN IF sort[1].order = "desc" THEN Reverse(sorted) ELSE sorted
  ELSE s

-----------------------------------------------------------------------------
(* getList: pagination *)

DefaultCurrent == 1
DefaultPageSize == 10

\* pagination?.current || 1 and pagination?.pageSize || 10: 0 stands for an
\* absent (or zero) member
Current(pagination) ==
  IF pagination.current = 0 THEN DefaultCurrent ELSE pagination.current

PageSize(pagination) ==
  IF pagination.pageSize = 0 THEN DefaultPageSize ELSE pagination.pageSize

Min(a, b) == IF a < b THEN a ELSE b
Max(a, b) == IF a > b THEN a ELSE b

\* a slice that takes the element at `end` too
SliceInclusive(s, start, end) == SubSeq(s, Min(start, Len(s)) + 1, Min(end + 1, Len(s)))

\* data.slice(start, end) for 0 <= start <= end: clipped to the array
Slice(s, start, end) == SubSeq(s, Min(start, Len(s)) + 1, Min(end, Len(s)))

\* start = (current - 1) * pageSize; end = current * pageSize
Page(s, pagination) ==
  Slice(s, (Current(pagination) - 1) * PageSize(pagination),
        Current(pagination) * PageSize(pagination))

-----------------------------------------------------------------------------
(* getList, getOne, getMany: what the handler does once get() has settled *)

RECURSIVE Ascending(_)
\* the integer keys of an object in ascending order (the order of Object.values)
Ascending(keys) ==
  IF keys = {} THEN <<>>
  ELSE LET m == CHOOSE k \in keys : \A j \in keys : k <= j
       IN <<m>> \o Ascending(keys \ {m})

\* what an async handler hands back: its promise is fulfilled with value, and
\* dropped counts the rejected promises it created without returning them
Fulfilled(value, dropped) ==
  [settled |-> "fulfilled", value |-> value, dropped |-> dropped]

\* the catch block of every handler: Promise.reject(error) is not returned,
\* so the handler's own promise is fulfilled with undefined
Caught == Fulfilled(U, 1)

\* the filtered and sorted data of getList, before the slice
FilteredSorted(eng, recs, a) ==
  LET outData == ApplyFilters(recs, Arr(Ascending(DOMAIN recs)), a.filters,
                              Len(a.filters))
  IN IF outData.t \in {"TypeError", "undefined"} THEN TypeError
     ELSE Arr(SortData(eng, recs, a.sort, outData.a))

GetListBody(eng, snapshot, a) ==
  IF ~snapshot.exists THEN Fulfilled(U, 1)
  ELSE LET data == FilteredSorted(eng, snapshot.val, a)
       IN IF data.t = "TypeError" THEN Caught
          ELSE Fulfilled([t |-> "list", data |-> Page(data.a, a.pagination),
                          total |-> Len(data.a)], 0)

\* get(resource + "/" + id): the record's node exists or not
GetOneBody(snapshot, a) ==
  IF ~snapshot.exists \/ a.id \notin DOMAIN snapshot.val THEN Fulfilled(U, 1)
  ELSE Fulfilled([t |-> "one", data |-> a.id], 0)

RECURSIVE WithIds(_, _, _)
\* snapshot.val().filter((item) => ids.includes(item.id))
WithIds(recs, keys, ids) ==
  IF keys = <<>> THEN <<>>
  ELSE (IF Prop(recs[Head(keys)], "id") \in ids THEN <<Head(keys)>> ELSE <<>>)
       \o WithIds(recs, Tail(keys), ids)

GetManyBody(snapshot, a) ==
  IF ~snapshot.exists THEN Fulfilled(U, 1)
  ELSE Fulfilled([t |-> "many",
                  data |-> WithIds(snapshot.val, Ascending(DOMAIN snapshot.val),
                                   a.ids)], 0)

-----------------------------------------------------------------------------
(* The inputs: stores and queries *)

\* the kinds of record: <<age, meta>>, an undefined member being absent
RecordKinds ==
  { <<Num(0), U>>,
    <<Num(1), Obj([f \in {"flag"} |-> Num(1)])>>,
    <<Num(2), Obj([f \in {"flag"} |-> Num(0)])>>,
    <<U, Obj([f \in {} |-> U])>> }

Record(id, kind) ==
  LET fields == {"id"} \cup (IF kind[1] = U THEN {} ELSE {"age"})
                       \cup (IF kind[2] = U THEN {} ELSE {"meta"})
  IN Obj([f \in fields |-> CASE f = "id" -> Num(id)
                               [] f = "age" -> kind[1]
                               [] OTHER -> kind[2]])

Stores ==
  {NotExists} \cup
  UNION { { Node([k \in 1..n |-> Record(k, kinds[k])]) : kinds \in [1..n -> RecordKinds] }
          : n \in 1..MaxRecs }

FilterFields == {"age", "meta.flag"}
Operators == KnownOps \cup {"contains"}

Operand(operator) ==
  IF operator \in {"in", "nin"} THEN Arr(<<Num(0), Num(2)>>) ELSE Num(1)

Comparison(field, operator) ==
  [field |-> field, operator |-> operator, value |-> Operand(operator)]

Comparisons == { Comparison(f, o) : f \in FilterFields, o \in Operators }

OrChildren ==
  { Comparison("age", "lt"), Comparison("age", "gte"), Comparison("age", "null"),
    Comparison("meta.flag", "nnull"), Comparison("meta.flag", "eq") }

OrClause(children) == [operator |-> "or", value |-> children]

OrClauses == { OrClause(<<c, d>>) : c \in OrChildren, d \in OrChildren }

TopClauses == Comparisons \cup OrClauses

\* the clauses that come first in a two-clause filter
FirstClauses ==
  { Comparison("age", "gte"), Comparison("age", "ne"),
    OrClause(<<Comparison("age", "lt"), Comparison("meta.flag", "nnull")>>) }

FilterSeqs ==
  {<<>>} \cup { <<c>> : c \in TopClauses }
         \cup { <<c, d>> : c \in FirstClauses, d \in TopClauses }

SortKeys == [field : FilterFields, order : {"asc", "desc"}]
Sorts == {<<>>} \cup { <<k>> : k \in SortKeys }
                \cup { <<k, [field |-> "id", order |-> "desc"]>> : k \in SortKeys }

NoPagination == [current |-> 0, pageSize |-> 0]
Paginations == [current : 0..MaxPage, pageSize : 0..MaxPageSize]

\* filter-heavy queries, and list queries that vary the sort and the page
Queries ==
  [filters : FilterSeqs, sort : {<<>>}, pagination : {NoPagination}] \cup
  [filters : {<<>>, <<Comparison("age", "gte")>>}, sort : Sorts,
   pagination : Paginations]

-----------------------------------------------------------------------------
(* The read calls *)

None == [t |-> "none"]

Callers == 1..NumCallers

readVars == <<engine, pc, op, args, got, result, unhandled>>
createVars == <<cop, cpc, items, cidx, newId, cresult, alloc, written, initIds>>
updateVars == <<uop, uargs, uwrite, uprom, uresult, utaken>>
liveVars == <<subs, thrown, mutations>>
vars == <<db, readVars, createVars, updateVars, liveVars>>

\* no read call in flight
ReadIdle ==
  /\ pc = "idle"
  /\ op = "none"
  /\ args = None
  /\ got = "pending"
  /\ result = None
  /\ unhandled = 0

\* no write call made yet
CreateIdle ==
  /\ cop = [c \in Callers |-> "none"]
  /\ cpc = [c \in Callers |-> "idle"]
  /\ items = [c \in Callers |-> 0]
  /\ cidx = [c \in Callers |-> 0]
  /\ newId = [c \in Callers |-> 0]
  /\ cresult = [c \in Callers |-> None]
  /\ alloc = [c \in Callers |-> <<>>]
  /\ written = {}
  /\ initIds = (IF db.exists THEN DOMAIN db.val ELSE {})

\* no update call made yet
UpdateIdle ==
  /\ uop = "none"
  /\ uargs = None
  /\ uwrite = <<>>
  /\ uprom = <<>>
  /\ uresult = None
  /\ utaken = None

\* no subscription made yet
LiveIdle ==
  /\ subs = <<>>
  /\ thrown = 0
  /\ mutations = 0

Init ==
  /\ db \in Stores
  /\ engine \in Engines
  /\ ReadIdle
  /\ CreateIdle
  /\ UpdateIdle
  /\ LiveIdle

\* the caller invokes getList; the handler runs to `await get(databaseRef)`
CallGetList ==
  /\ pc = "idle"
  /\ \E q \in Queries : args' = q
  /\ op' = "getList"
  /\ pc' = "awaitGet"
  /\ UNCHANGED <<db, engine, got, result, unhandled, createVars, updateVars, liveVars>>

CallGetOne ==
  /\ pc = "idle"
  /\ \E id \in 1..(MaxRecs + 1) : args' = [id |-> id]
  /\ op' = "getOne"
  /\ pc' = "awaitGet"
  /\ UNCHANGED <<db, engine, got, result, unhandled, createVars, updateVars, liveVars>>

CallGetMany ==
  /\ pc = "idle"
  /\ \E ids \in SUBSET {Num(1), Num(MaxRecs)} : args' = [ids |-> ids]
  /\ op' = "getMany"
  /\ pc' = "awaitGet"
  /\ UNCHANGED <<db, engine, got, result, unhandled, createVars, updateVars, liveVars>>

Settle(r, how) ==
  /\ got' = how
  /\ result' = r
  /\ unhandled' = unhandled + r.dropped
  /\ pc' = "done"
  /\ UNCHANGED <<db, engine, op, args, createVars, updateVars, liveVars>>

\* get() resolves with the snapshot and the handler runs to its end
ResumeGetList ==
  /\ pc = "awaitGet" /\ op = "getList"
  /\ Settle(GetListBody(engine, db, args), "resolved")

ResumeGetOne ==
  /\ pc = "awaitGet" /\ op = "getOne"
  /\ Settle(GetOneBody(db, args), "resolved")

ResumeGetMany ==
  /\ pc = "awaitGet" /\ op = "getMany"
  /\ Settle(GetManyBody(db, args), "resolved")

\* get() rejects (the store read fails): the await throws into the catch block
ReadFails ==
  /\ pc = "awaitGet"
  /\ Settle(Caught, "rejected")

\* the caller has taken the settled promise
Return ==
  /\ pc = "done"
  /\ pc' = "idle"
  /\ op' = "none"
  /\ args' = None
  /\ got' = "pending"
  /\ result' = None
  /\ unhandled' = 0
  /\ UNCHANGED <<db, engine, createVars, updateVars, liveVars>>

Next ==
  \/ CallGetList
  \/ CallGetOne
  \/ CallGetMany
  \/ ResumeGetList
  \/ ResumeGetOne
  \/ ResumeGetMany
  \/ ReadFails
  \/ Return

Spec == Init /\ [][Next]_vars

-----------------------------------------------------------------------------
(* The create path: biggestIdPlusOneStrategy, createData, createManyData *)

RECURSIVE MaxOf(_)
\* .reduce((max, current) => (current > max ? current : max), 0)
MaxOf(S) ==
  IF S = {} THEN 0
  ELSE LET x == CHOOSE y \in S : TRUE
           m == MaxOf(S \ {x})
       IN IF x > m THEN x ELSE m

\* the largest id, without the increment
BiggestId(recs) == MaxOf({ Prop(recs[k], "id").n : k \in DOMAIN recs })

\* the number of records plus one
CountPlusOne(recs) == Cardinality(DOMAIN recs) + 1

\* biggestIdPlusOneStrategy on a snapshot that exists:
\* data.map((item) => Number(item.id)).reduce(max, 0) + 1
BiggestIdPlusOne(recs) == MaxOf({ Prop(recs[k], "id").n : k \in DOMAIN recs }) + 1

\* { ...variables, id }: the record of caller c's item i
Payload(c, i, id) ==
  Obj([f \in {"id", "title"} |-> IF f = "id" THEN Num(id) ELSE Num(10 * c + i)])

\* snapshot.val() is read as an array (let data: any[]): the keys are such
\* that the store hands the node back as an array
ArrayShaped(keys) == keys # {} /\ \A k \in keys : k < 2 * Cardinality(keys)

CreateStores ==
  {NotExists} \cup
  { Node([k \in keys |-> Record(k, <<Num(0), U>>)]) :
      keys \in { K \in SUBSET (1..MaxInitId) : ArrayShaped(K) } }

InitCreate ==
  /\ db \in CreateStores
  /\ engine = "binaryInsertion"
  /\ ReadIdle
  /\ CreateIdle
  /\ UpdateIdle
  /\ LiveIdle

RECURSIVE Sum(_, _)
Sum(f, S) ==
  IF S = {} THEN 0
  ELSE LET x == CHOOSE y \in S : TRUE IN f[x] + Sum(f, S \ {x})

\* the records the calls made so far were asked to create
Requested == Sum(items, Callers)

\* createData({resource, variables}) is called and runs to
\* `await this.getCreateId(this, resource)`
CallCreate(c) ==
  /\ cpc[c] = "idle"
  /\ Requested + 1 <= MaxTotalItems
  /\ cop' = [cop EXCEPT ![c] = "create"]
  /\ items' = [items EXCEPT ![c] = 1]
  /\ cidx' = [cidx EXCEPT ![c] = 1]
  /\ cpc' = [cpc EXCEPT ![c] = "awaitId"]
  /\ UNCHANGED <<db, readVars, updateVars, liveVars, newId, cresult, alloc, written, initIds>>

\* createManyData({resource, variables}) is called: with no item the loop
\* ends at once, else it runs to the first createData's await
CallCreateMany(c) ==
  /\ cpc[c] = "idle"
  /\ \E n \in 0..MaxItems :
       /\ Requested + n <= MaxTotalItems
       /\ items' = [items EXCEPT ![c] = n]
       /\ cidx' = [cidx EXCEPT ![c] = IF n = 0 THEN 0 ELSE 1]
       /\ cpc' = [cpc EXCEPT ![c] = IF n = 0 THEN "done" ELSE "awaitId"]
       /\ cresult' = [cresult EXCEPT ![c] = IF n = 0 THEN U ELSE None]
  /\ cop' = [cop EXCEPT ![c] = "createMany"]
  /\ UNCHANGED <<db, readVars, updateVars, liveVars, newId, alloc, written, initIds>>

\* createData has returned for the item: createManyData goes on to the next
\* item's createData or ends (it returns nothing); createData's own caller
\* gets what it returned
AfterItem(c, returned) ==
  IF cop[c] = "createMany" /\ cidx[c] < items[c]
  THEN /\ cidx' = [cidx EXCEPT ![c] = cidx[c] + 1]
       /\ cpc' = [cpc EXCEPT ![c] = "awaitId"]
       /\ UNCHANGED cresult
  ELSE /\ cpc' = [cpc EXCEPT ![c] = "done"]
       /\ cresult' = [cresult EXCEPT ![c] =
                        IF cop[c] = "create" THEN returned ELSE U]
       /\ UNCHANGED cidx

\* get() resolves in biggestIdPlusOneStrategy: the id is computed from the
\* snapshot and createData runs to `await set(databaseRef, payload)`, or the
\* node does not exist, the strategy rejects and createData's catch drops it
AllocateId(c) ==
  /\ cpc[c] = "awaitId"
  /\ IF db.exists
     THEN LET id == BiggestIdPlusOne(db.val)
          IN /\ newId' = [newId EXCEPT ![c] = id]
             /\ alloc' = [alloc EXCEPT ![c] =
                            Append(@, [id |-> id, maxBefore |-> MaxOf(DOMAIN db.val),
                                       seen |-> written])]
             /\ cpc' = [cpc EXCEPT ![c] = "awaitSet"]
             /\ UNCHANGED <<cidx, cresult>>
     ELSE /\ alloc' = [alloc EXCEPT ![c] =
                         Append(@, [id |-> 0, maxBefore |-> 0, seen |-> written])]
          /\ AfterItem(c, U)
          /\ UNCHANGED newId
  /\ UNCHANGED <<db, readVars, updateVars, liveVars, cop, items, written, initIds>>

\* set() resolves: the payload is the node resource/id, whatever was there
WriteRecord(c) ==
  /\ cpc[c] = "awaitSet"
  /\ db' = Node([k \in DOMAIN db.val \cup {newId[c]} |->
                   IF k = newId[c] THEN Payload(c, cidx[c], newId[c]) ELSE db.val[k]])
  /\ written' = written \cup {<<c, cidx[c]>>}
  /\ AfterItem(c, [t |-> "created", data |-> newId[c]])
  /\ UNCHANGED <<readVars, updateVars, liveVars, cop, items, newId, alloc, initIds>>

NextCreate ==
  \E c \in Callers :
    \/ CallCreate(c)
    \/ CallCreateMany(c)
    \/ AllocateId(c)
    \/ WriteRecord(c)

SpecCreate == InitCreate /\ [][NextCreate]_vars

\* the id allocated to caller c's item i (0 when the allocation was rejected)
IdOf(x) == alloc[x[1]][x[2]].id

\* the items an id has been allocated to
Allocated == { x \in Callers \X (1..MaxItems) : x[2] <= Len(alloc[x[1]]) /\ IdOf(x) # 0 }

\* caller c is the only writer: no other caller has called anything
OnlyWriter(c) == \A d \in Callers \ {c} : cpc[d] = "idle"

C9_UniqueOnlyWhenSerialized ==
  /\ \A x, y \in Allocated :
       (x # y /\ x \in alloc[y[1]][y[2]].seen) => IdOf(x) # IdOf(y)
  /\ (db.exists /\ Cardinality(DOMAIN db.val) < Cardinality(initIds) + Cardinality(written)) =>
       \E x, y \in written :
         /\ x # y /\ IdOf(x) = IdOf(y)
         /\ x \notin alloc[y[1]][y[2]].seen /\ y \notin alloc[x[1]][x[2]].seen

\* two creates in flight together read the same largest id, both got the
\* same new id and both wrote: the later record replaced the earlier one, and
\* one record was added for two creates that succeeded
C9_Witness ==
  /\ cop[1] = "create" /\ cop[2] = "create"
  /\ cpc[1] = "done" /\ cpc[2] = "done"
  /\ cresult[1].t = "created" /\ cresult[2].t = "created"
  /\ alloc[1][1].maxBefore = alloc[2][1].maxBefore
  /\ cresult[1].data = cresult[2].data
  /\ db.val[cresult[1].data] = Payload(2, 1, cresult[2].data)
  /\ Cardinality(DOMAIN db.val) = Cardinality(initIds) + 1

-----------------------------------------------------------------------------
(* What the claims speak of *)

Range(s) == { s[i] : i \in 1..Len(s) }

NoDuplicates(s) == \A i, j \in 1..Len(s) : s[i] = s[j] => i = j

\* a getList call has settled after get() resolved with an existing node
ListedExisting ==
  pc = "done" /\ op = "getList" /\ got = "resolved" /\ db.exists

\* ... and returned { data, total }
Listed == ListedExisting /\ result.value.t = "list"

AllKeys == Ascending(DOMAIN db.val)

\* the candidate set after the first n top-level clauses of the call
Candidates(n) == ApplyFilters(db.val, Arr(AllKeys), args.filters, n)

\* the sequence the call paginates
PaginatedSeq == FilteredSorted(engine, db.val, args).a

IsDotted(field) == Len(Split(field)) > 1

RECURSIVE PathValue(_, _)
\* the value of a dotted path as the specification resolves it: undefined
\* once a segment is absent
PathValue(value, path) ==
  IF path = <<>> THEN value
  ELSE IF value.t = "object" /\ Head(path) \in DOMAIN value.f
       THEN PathValue(value.f[Head(path)], Tail(path))
       ELSE U

\* a record satisfies a comparison, the comparison evaluated on the resolved
\* value
Satisfies(k, clause) ==
  FilterFn(clause, PathValue(db.val[k], Split(clause.field)))

\* a record satisfies a top-level clause: an OR clause when at least one
\* child comparison holds
Holds(k, clause) ==
  IF clause.operator = "or"
  THEN \E i \in 1..Len(clause.value) : Satisfies(k, clause.value[i])
  ELSE Satisfies(k, clause)

Passing == { k \in DOMAIN db.val : \A i \in 1..Len(args.filters) : Holds(k, args.filters[i]) }

RECURSIVE ConcatPages(_, _, _)
\* the data of the calls for pages k..last of size P, end to end
ConcatPages(P, k, last) ==
  IF k > last THEN <<>>
  ELSE GetListBody(engine, db,
                   [args EXCEPT !.pagination = [current |-> k, pageSize |-> P]]
                  ).value.data
       \o ConcatPages(P, k + 1, last)

\* C1: a getList page of positive size P and number K over a filtered and
\* sorted sequence of N records holds max(0, min(P, N - (K-1)*P)) records,
\* and the pages 1..ceil(N/P) end to end are that sequence.
C1_Pagination ==
  (Listed /\ args.pagination.current >= 1 /\ args.pagination.pageSize >= 1) =>
    LET P == args.pagination.pageSize
        K == args.pagination.current
        N == Len(PaginatedSeq)
    IN /\ Len(result.value.data) = Max(0, Min(P, N - (K - 1) * P))
       /\ ConcatPages(P, 1, (N + P - 1) \div P) = PaginatedSeq

\* a partial last page: 3 records in pages of 2, page 2 holds 1 record
C1_Witness ==
  /\ Listed /\ args.pagination = [current |-> 2, pageSize |-> 2]
  /\ result.value.total = 3 /\ Len(result.value.data) = 1
  /\ Len(args.sort) > 0

\* C2: every getList call on an existing resource returns a total equal to
\* the number of records that pass all filters, whatever the page, and
\* returns an empty data and total 0 when no record passes.
C2_TotalIsFilteredCount ==
  ListedExisting =>
    /\ result.value.t = "list"
    /\ result.value.total = Cardinality(Passing)
    /\ (Passing = {} => result.value.data = <<>>)

\* the node that holds the records of keys only
Restrict(keys) == Node([k \in keys |-> db.val[k]])

\* Where the call returns { data, total } (no path resolution threw), the
\* candidate set after an OR clause is the union of the matching subsets of
\* the candidate set before it, each record once.
OrIsUnionWhereReturned ==
  Listed =>
    \A i \in 1..Len(args.filters) :
      args.filters[i].operator = "or" =>
        LET S == Range(Candidates(i - 1).a)
            children == args.filters[i].value
            after == Candidates(i).a
        IN /\ Range(after) =
                UNION { { k \in S : FilterFn(children[j],
                                             ResolvedValue(db.val, k, children[j])) }
                        : j \in 1..Len(children) }
           /\ NoDuplicates(after)
           /\ (i = Len(args.filters) => result.value.total = Len(after))

\* Where the call returns { data, total }, the records kept are those that
\* satisfy every top-level clause, and [C1, C2] keep what C2 keeps of the
\* output of C1.
SequentialAndWhereReturned ==
  Listed =>
    /\ Range(PaginatedSeq) = Passing
    /\ result.value.total = Cardinality(Passing)
    /\ Len(args.filters) = 2 =>
         LET one == GetListBody(engine, db, [args EXCEPT !.filters = <<args.filters[1]>>,
                                              !.pagination = NoPagination])
             two == GetListBody(engine, Restrict(Range(one.value.data)),
                                [args EXCEPT !.filters = <<args.filters[2]>>,
                                             !.pagination = NoPagination])
         IN /\ one.value.t = "list" /\ two.value.t = "list"
            /\ Range(two.value.data) = Range(PaginatedSeq)
            /\ two.value.total = result.value.total

\* C3: for every candidate set S left by the clauses before it and every OR
\* clause with comparison children, the candidate set after the OR clause is
\* the union of the subsets of S that match each child, each record once.
C3_OrIsUnion ==
  ListedExisting =>
    \A i \in 1..Len(args.filters) :
      (args.filters[i].operator = "or" /\ Candidates(i - 1).t = "array") =>
        LET S == Range(Candidates(i - 1).a)
            children == args.filters[i].value
        IN /\ Candidates(i).t = "array"
           /\ Range(Candidates(i).a) =
                UNION { { k \in S : Satisfies(k, children[j]) }
                        : j \in 1..Len(children) }
           /\ NoDuplicates(Candidates(i).a)
           /\ (i = Len(args.filters) =>
                 /\ result.value.t = "list"
                 /\ result.value.total = Len(Candidates(i).a))

\* C4: for every collection and every sequence of top-level clauses, the
\* filtered set getList returns holds exactly the records that satisfy every
\* clause (an OR clause when one child holds), and [C1, C2] give what C2
\* gives of the output of C1.
C4_SequentialAnd ==
  ListedExisting =>
    /\ result.value.t = "list"
    /\ Range(PaginatedSeq) = Passing
    /\ result.value.total = Cardinality(Passing)
    /\ Len(args.filters) = 2 =>
         LET one == GetListBody(engine, db, [args EXCEPT !.filters = <<args.filters[1]>>,
                                              !.pagination = NoPagination])
             two == GetListBody(engine, Restrict(Range(one.value.data)),
                                [args EXCEPT !.filters = <<args.filters[2]>>,
                                             !.pagination = NoPagination])
         IN /\ one.value.t = "list" /\ two.value.t = "list"
            /\ Range(two.value.data) = Range(PaginatedSeq)
            /\ two.value.total = result.value.total

\* C5: a filter on a dotted path never raises: where a record lacks an
\* intermediate segment the value is undefined, nnull is false for that
\* record, and getList completes with a normal result.
C5_DottedPathNeverRaises ==
  (/\ ListedExisting
   /\ \E i \in 1..Len(args.filters) :
        /\ args.filters[i].operator # "or"
        /\ IsDotted(args.filters[i].field)) =>
    /\ result.value.t = "list"
    /\ unhandled = 0
    /\ \A i \in 1..Len(args.filters) :
         (args.filters[i].operator = "nnull" /\ IsDotted(args.filters[i].field)) =>
           \A k \in Range(result.value.data) :
             Split(args.filters[i].field)[1] \in DOMAIN db.val[k].f

\* C6: when the resource path does not exist, or the store read fails,
\* getList, getOne and getMany end in a rejected result.
C6_MissingResourceRejects ==
  (pc = "done" /\ (got = "rejected" \/ ~db.exists)) => result.settled = "rejected"

\* C7: with sort keys given, the sequence getList paginates is a permutation
\* of the filtered set ordered by the first key's dotted-path value:
\* ascending, no value is less than its predecessor's; descending, the
\* reverse of the ascending sequence; later keys change nothing.
C7_SortedByFirstKey ==
  (Listed /\ Len(args.sort) > 0) =>
    LET seq == PaginatedSeq
        key(k) == PathValue(db.val[k], Split(args.sort[1].field))
        asc == IF args.sort[1].order = "desc" THEN Reverse(seq) ELSE seq
    IN /\ Range(seq) = Range(Candidates(Len(args.filters)).a)
       /\ Len(seq) = Len(Candidates(Len(args.filters)).a)
       /\ \A i \in 1..(Len(asc) - 1) : ~Less(key(asc[i + 1]), key(asc[i]))
       /\ asc = FilteredSorted(engine, db.val,
                               [args EXCEPT !.sort = <<[field |-> args.sort[1].field,
                                                        order |-> "asc"]>>]).a

\* C10: a comparison whose operator is none of the known ones filters
\* nothing: the candidate set is returned as it is and nothing is raised.
C10_UnknownOperatorKeepsAll ==
  ListedExisting =>
    \A i \in 1..Len(args.filters) :
      (args.filters[i].operator \notin KnownOps \cup {"or"}
       /\ Candidates(i - 1).t = "array") =>
        /\ Candidates(i) = Candidates(i - 1)
        /\ (i = Len(args.filters) =>
              /\ result.value.t = "list"
              /\ result.value.total = Len(Candidates(i - 1).a))

-----------------------------------------------------------------------------
(* The live provider: FirebaseLiveProvider.subscribe, unsubscribe and       *)
(* getProvider.  onValue(databaseRef, listener) registers the listener at   *)
(* the resource and returns the function that removes it; the store calls   *)
(* every listener registered at a resource on a mutation under it.          *)

MaxSubs == 2
MaxMutations == 2

Str(s) == [t |-> "string", s |-> s]

\* a channel as its path segments: "resources/posts" is <<"resources", "posts">>
Channels == { <<"resources", "posts">>, <<"resources", "users">>, <<"posts">> }

RECURSIVE Replace(_)
\* channel.replace("resources/", ""): the first "resources/" is removed
Replace(channel) ==
  IF Len(channel) < 2 THEN channel
  ELSE IF Head(channel) = "resources" THEN Tail(channel)
  ELSE <<Head(channel)>> \o Replace(Tail(channel))

Resources == { Replace(channel) : channel \in Channels }

\* the argument object of a subscribe call; its callback is the subscriber's
SubscribeArgs(channel) == [t |-> "object", channel |-> Str(channel)]

\* the Unsubscribe function onValue returned for listener l
Handle(l) == [t |-> "function", listener |-> l]

\* let { channel, callback } = args: a function has no such property
Channel(a) == IF a.t = "object" THEN a.channel ELSE U

\* subscribe(args) down to getRef(resource): the resource to listen at, or
\* the TypeError of channel.replace on undefined
SubscribeBody(a) ==
  IF Channel(a) = U THEN TypeError
  ELSE [t |-> "ref", resource |-> Replace(Channel(a).s)]

\* the listener a call of `by` registers with onValue at the resource
Listener(resource, by) ==
  [resource |-> resource, registered |-> TRUE, by |-> by, passed |-> "no",
   calls |-> 0, late |-> 0]

\* a method of FirebaseLiveProvider called with argument a, the listeners
\* being `listeners`; caller is the provider property the call came through
CallMethod(method, a, listeners, caller) ==
  IF method = "subscribe"
  THEN LET databaseRef == SubscribeBody(a)
       IN IF databaseRef = TypeError
          THEN /\ thrown' = thrown + 1
               /\ subs' = listeners
          ELSE /\ subs' = Append(listeners, Listener(databaseRef.resource, caller))
               /\ UNCHANGED thrown
  ELSE \* unsubscribe(unsub) { unsub(); }
       IF a.t = "function"
       THEN /\ subs' = [listeners EXCEPT ![a.listener].registered = FALSE]
            /\ UNCHANGED thrown
       ELSE /\ thrown' = thrown + 1
            /\ subs' = listeners

\* getProvider(): the method each property of the live provider is bound to
GetLiveProvider == [subscribe |-> "subscribe", unsubscribe |-> "subscribe"]

\* history: the handle of listener l has been handed to an unsubscribe
Passed(l, to) == [subs EXCEPT ![l].passed = to]

InitLive ==
  /\ db = NotExists
  /\ engine \in Engines
  /\ ReadIdle
  /\ CreateIdle
  /\ UpdateIdle
  /\ LiveIdle

\* the subscriber calls the provider's subscribe
ProviderSubscribe ==
  /\ Len(subs) < MaxSubs
  /\ \E channel \in Channels :
       CallMethod(GetLiveProvider.subscribe, SubscribeArgs(channel), subs,
                  "subscribe")
  /\ UNCHANGED <<db, readVars, createVars, updateVars, mutations>>

\* the subscriber passes a handle to the provider's unsubscribe
ProviderUnsubscribe ==
  /\ \E l \in DOMAIN subs :
       /\ subs[l].passed = "no"
       /\ CallMethod(GetLiveProvider.unsubscribe, Handle(l),
                     Passed(l, "provider"), "unsubscribe")
  /\ UNCHANGED <<db, readVars, createVars, updateVars, mutations>>

\* the subscriber passes a handle to the class's own unsubscribe method
Unsubscribe ==
  /\ \E l \in DOMAIN subs :
       /\ subs[l].passed = "no"
       /\ CallMethod("unsubscribe", Handle(l), Passed(l, "method"),
                     "unsubscribe")
  /\ UNCHANGED <<db, readVars, createVars, updateVars, mutations>>

\* a mutation of the store under a resource: every listener registered at
\* the resource runs, and calls its callback with { channel }
Mutation ==
  /\ mutations < MaxMutations
  /\ mutations' = mutations + 1
  /\ \E resource \in Resources :
       subs' = [l \in DOMAIN subs |->
                  IF subs[l].registered /\ subs[l].resource = resource
                  THEN [subs[l] EXCEPT
                          !.calls = @ + 1,
                          !.late = IF subs[l].passed = "no" THEN @ ELSE @ + 1]
                  ELSE subs[l]]
  /\ UNCHANGED <<db, readVars, createVars, updateVars, thrown>>

NextLive ==
  \/ ProviderSubscribe
  \/ ProviderUnsubscribe
  \/ Unsubscribe
  \/ Mutation

SpecLive == InitLive /\ [][NextLive]_vars

\* C11: once the handle subscribe returned has been passed to the provider's
\* unsubscribe, the subscribed callback is not invoked for any later mutation
\* under the resource, and no listener was registered by a call of unsubscribe.
C11_UnsubscribeEndsSubscription ==
  \A l \in DOMAIN subs :
    /\ subs[l].by # "unsubscribe"
    /\ (subs[l].passed = "provider" => subs[l].late = 0)

\* the handle passed to the class's own unsubscribe method does end the
\* subscription
UnsubscribeMethodEndsSubscription ==
  \A l \in DOMAIN subs :
    subs[l].passed = "method" => ~subs[l].registered /\ subs[l].late = 0

\* the provider's unsubscribe throws and leaves the listener registered
ProviderUnsubscribeThrows ==
  \A l \in DOMAIN subs :
    subs[l].passed = "provider" => subs[l].registered /\ thrown > 0

-----------------------------------------------------------------------------
(* The update path: updateData and updateManyData.  update(databaseRef,     *)
(* variables) returns a promise; the store applies the write, or refuses    *)
(* it, in a later step, and the promise settles then.                       *)

MaxIds == 2

\* a promise that has not settled
Pending == [settled |-> "pending"]

\* the promise updateData returned for id, as an element of `data`
PromiseOf(id) == [t |-> "promise", id |-> id]

\* ids: BaseKey[]
UpdateIds ==
  { ids \in UNION { [1..n -> 1..MaxRecs] : n \in 0..MaxIds } :
      \A i, j \in DOMAIN ids : ids[i] = ids[j] => i = j }

\* variables
UpdateVariables == { Obj([f \in {"age"} |-> Num(n)]) : n \in {0, 7} }

\* update(ref(`${resource}/${id}`), variables) applied: the children named in
\* variables are written, the other children of the record are kept
UpdateNode(snapshot, id, variables) ==
  LET recs == snapshot.val
      old == IF id \in DOMAIN recs THEN recs[id].f ELSE [f \in {} |-> U]
      new == Obj([f \in DOMAIN old \cup DOMAIN variables.f |->
                    IF f \in DOMAIN variables.f THEN variables.f[f] ELSE old[f]])
  IN Node([k \in DOMAIN recs \cup {id} |-> IF k = id THEN new ELSE recs[k]])

\* updateData down to `await update(databaseRef, variables)`, for each id of
\* s: the write is issued and the promise of the call is pending
UpdateDataCalls(s) ==
  /\ uwrite' = [id \in s |-> "pending"]
  /\ uprom' = [id \in s |-> Pending]

\* the caller invokes update: updateData runs to its await
CallUpdate ==
  /\ uop = "none"
  /\ \E id \in 1..MaxRecs, variables \in UpdateVariables :
       /\ uargs' = [ids |-> <<id>>, variables |-> variables]
       /\ UpdateDataCalls({id})
  /\ uop' = "update"
  /\ uresult' = Pending
  /\ UNCHANGED <<db, utaken, readVars, createVars, liveVars>>

\* the caller invokes updateMany: the forEach callback calls updateData for
\* every id and pushes the promise it returned, un-awaited, and the handler
\* returns { data } at once
CallUpdateMany ==
  /\ uop = "none"
  /\ \E ids \in UpdateIds, variables \in UpdateVariables :
       /\ uargs' = [ids |-> ids, variables |-> variables]
       /\ UpdateDataCalls(Range(ids))
       /\ uresult' = Fulfilled([t |-> "many",
                                data |-> [k \in 1..Len(ids) |-> PromiseOf(ids[k])]],
                               0)
  /\ uop' = "updateMany"
  /\ UNCHANGED <<db, utaken, readVars, createVars, liveVars>>

\* an updateData call in flight settles with r; the promise of update is it
UpdateDataSettles(id, how, r) ==
  /\ uwrite' = [uwrite EXCEPT ![id] = how]
  /\ uprom' = [uprom EXCEPT ![id] = r]
  /\ uresult' = IF uop = "update" THEN r ELSE uresult
  /\ UNCHANGED <<uop, uargs, utaken, readVars, createVars, liveVars>>

\* the store applies the write of an id: update() resolves and updateData
\* returns { data: variables }
UpdateApplied ==
  \E id \in DOMAIN uwrite :
    /\ uwrite[id] = "pending"
    /\ db' = UpdateNode(db, id, uargs.variables)
    /\ UpdateDataSettles(id, "applied",
                         Fulfilled([t |-> "one", data |-> uargs.variables], 0))

\* the store refuses the write of an id: update() rejects into the catch block
UpdateFails ==
  \E id \in DOMAIN uwrite :
    /\ uwrite[id] = "pending"
    /\ UNCHANGED db
    /\ UpdateDataSettles(id, "failed", Caught)

\* the settled promise of the call reaches the caller; history: the writes
\* as they stood then
TakeResult ==
  /\ uop # "none"
  /\ utaken = None
  /\ uresult.settled # "pending"
  /\ utaken' = [t |-> "taken", writes |-> uwrite]
  /\ UNCHANGED <<db, uop, uargs, uwrite, uprom, uresult, readVars, createVars,
                 liveVars>>

NextUpdate ==
  \/ CallUpdate
  \/ CallUpdateMany
  \/ UpdateApplied
  \/ UpdateFails
  \/ TakeResult

SpecUpdate == Init /\ [][NextUpdate]_vars

\* the fields of variables are in the record of id in the store
UpdatedInStore(id) ==
  /\ db.exists
  /\ id \in DOMAIN db.val
  /\ \A f \in DOMAIN uargs.variables.f : Prop(db.val[id], f) = uargs.variables.f[f]

\* C12: when the result of updateMany has reached the caller, the update of
\* every id in ids had been applied to the store by then, data holds one
\* updated record per id and no pending operation, and once an update of an
\* id has failed the call has failed.
C12_UpdateManyAwaitsUpdates ==
  (uop = "updateMany" /\ utaken # None) =>
    IF \E id \in DOMAIN uwrite : uwrite[id] = "failed"
    THEN uresult.settled = "rejected"
    ELSE /\ \A id \in DOMAIN utaken.writes :
              utaken.writes[id] = "applied" /\ UpdatedInStore(id)
         /\ uresult.settled = "fulfilled"
         /\ Len(uresult.value.data) = Len(uargs.ids)
         /\ \A k \in DOMAIN uresult.value.data :
              uresult.value.data[k] = uargs.variables

\* the result of update reaches the caller after the write has settled, and
\* holds the variables when the write was applied
UpdateAwaitsWrite ==
  (uop = "update" /\ utaken # None) =>
    \A id \in DOMAIN utaken.writes :
      /\ utaken.writes[id] # "pending"
      /\ (utaken.writes[id] = "applied" =>
            /\ UpdatedInStore(id)
            /\ uresult = Fulfilled([t |-> "one", data |-> uargs.variables], 0))

\* what updateMany returns whatever becomes of the writes: fulfilled at the
\* call, with the promise of each updateData call in data
UpdateManyReturnsPromises ==
  uop = "updateMany" =>
    /\ uresult.settled = "fulfilled"
    /\ uresult.value.data = [k \in 1..Len(uargs.ids) |-> PromiseOf(uargs.ids[k])]

=============================================================================
